---------------------------- MODULE Spec2Model ----------------------------
(*
  A model of roman_adding.py: addition of roman numerals by string
  manipulation.  A roman number (a Python str) is a sequence of one-character
  strings; the two lookup tables are sequences of <<key, value>> pairs in
  their insertion order, which is the order .items() walks them in.
*)
EXTENDS Integers, Sequences, FiniteSets, TLC

VARIABLES
    call,                \* the function the caller invoked
    numbers,             \* the argument tuple the caller supplied
    pc,                  \* the position of the running call
    i,                   \* add: index of the token check_roman is applied to next
    number,              \* the string being transformed
    number_before_fold,  \* fold_digits: the string at the start of the pass
    k,                   \* position in the table the running for-loop walks
    fired,               \* fold_digits: table positions of the replacements made
    passes,              \* fold_digits: completed passes of the while loop
    result,              \* the returned string, once returned
    sums                 \* results of the calls a caller combines

vars ==
    <<call, numbers, pc, i, number, number_before_fold, k, fired, passes,
      result, sums>>

----------------------------------------------------------------------------
(* Bounds of the model *)

\* the most symbols the tokens of one call hold together
MaxSymbols == 3

\* the most tokens one call is given
MaxTokens == 2

\* the most symbols of a call whose tokens are all tidy or relaxed numerals
MaxSupportedSymbols == 4

\* the longest string fold_digits is called on directly
MaxFoldSymbols == 5

\* the largest value a tidy numeral is written for
MaxValue == 3999

----------------------------------------------------------------------------
(* Tables *)

ROMAN_DIGITS == <<"I", "V", "X", "L", "C", "D", "M">>

\* characters a caller may type that are no roman digit
OtherChars == {"9"}

Digits == {ROMAN_DIGITS[j] : j \in 1..Len(ROMAN_DIGITS)}

Chars == Digits \cup OtherChars

\* the same table filled in smallest value first
ADDITIVE_MAP_smallest_first ==
    << << <<"I","V">>, <<"I","I","I","I">> >>,
       << <<"I","X">>, <<"V","I","I","I","I">> >>,
       << <<"X","L">>, <<"X","X","X","X">> >>,
       << <<"X","C">>, <<"L","X","X","X","X">> >>,
       << <<"C","D">>, <<"C","C","C","C">> >>,
       << <<"C","M">>, <<"D","C","C","C","C">> >> >>

ADDITIVE_MAP ==
    << << <<"C","M">>, <<"D","C","C","C","C">> >>,
       << <<"C","D">>, <<"C","C","C","C">> >>,
       << <<"X","C">>, <<"L","X","X","X","X">> >>,
       << <<"X","L">>, <<"X","X","X","X">> >>,
       << <<"I","X">>, <<"V","I","I","I","I">> >>,
       << <<"I","V">>, <<"I","I","I","I">> >> >>

\* the same table with the entry for VV left out
REDUCTION_MAP_without_VV ==
    << << <<"I","I","I","I","I">>, <<"V">> >>,
       << <<"V","I","V">>, <<"I","X">> >>,
       << <<"X","X","X","X","X">>, <<"L">> >>,
       << <<"L","X","L">>, <<"X","C">> >>,
       << <<"L","L">>, <<"C">> >>,
       << <<"C","C","C","C","C">>, <<"D">> >>,
       << <<"D","C","D">>, <<"C","M">> >>,
       << <<"D","D">>, <<"M">> >> >>

REDUCTION_MAP ==
    << << <<"I","I","I","I","I">>, <<"V">> >>,
       << <<"V","I","V">>, <<"I","X">> >>,
       << <<"V","V">>, <<"X">> >>,
       << <<"X","X","X","X","X">>, <<"L">> >>,
       << <<"L","X","L">>, <<"X","C">> >>,
       << <<"L","L">>, <<"C">> >>,
       << <<"C","C","C","C","C">>, <<"D">> >>,
       << <<"D","C","D">>, <<"C","M">> >>,
       << <<"D","D">>, <<"M">> >> >>

----------------------------------------------------------------------------
(* Python's str operations *)

\* s.startswith(sub) written where sub in s was meant
In_startswith(sub, s) ==
    Len(sub) <= Len(s) /\ SubSeq(s, 1, Len(sub)) = sub

\* sub in s
In(sub, s) ==
    \E t \in {s} :
        \E p \in 0..(Len(t) - Len(sub)) : SubSeq(t, p + 1, p + Len(sub)) = sub

\* the scan of s.replace(old, new) from position p on: an occurrence of old
\* at p is replaced and the scan goes on behind it
RECURSIVE replace_from(_, _, _, _)
replace_from(s, old, new, p) ==
    IF p > Len(s) THEN <<>>
    ELSE IF p + Len(old) - 1 <= Len(s) /\ SubSeq(s, p, p + Len(old) - 1) = old
         THEN new \o replace_from(s, old, new, p + Len(old))
         ELSE <<s[p]>> \o replace_from(s, old, new, p + 1)

\* s.replace(old, new): every non-overlapping occurrence, scanning from the left
replace(s, old, new) == replace_from(s, old, new, 1)

\* ''.join(parts)
RECURSIVE join(_)
join(parts) ==
    IF parts = <<>> THEN <<>> ELSE Head(parts) \o join(Tail(parts))

\* ROMAN_DIGITS.index(x)
index(x) == CHOOSE j \in 1..Len(ROMAN_DIGITS) : ROMAN_DIGITS[j] = x

\* sorted(s, key=index, reverse=True): a stable sort, largest key first
RECURSIVE sorted_from(_, _)
sorted_from(s, j) ==
    IF j = 0 THEN <<>>
    ELSE SelectSeq(s, LAMBDA x : index(x) = j) \o sorted_from(s, j - 1)

\* the sum left as it was joined, not sorted at all
unsorted_sum_of(additive_sum) == additive_sum

\* sorted without reverse=True: smallest key first
RECURSIVE ascending_from(_, _)
ascending_from(s, j) ==
    IF j > Len(ROMAN_DIGITS) THEN <<>>
    ELSE SelectSeq(s, LAMBDA x : index(x) = j) \o ascending_from(s, j + 1)

ascending_sum_of(additive_sum) == ascending_from(additive_sum, 1)

sorted_sum_of(additive_sum) == sorted_from(additive_sum, Len(ROMAN_DIGITS))

----------------------------------------------------------------------------
(* The functions of the module.  A for loop over a table is a recursion over
   the table's positions; the string an iteration leaves is bound (m) before
   the loop goes on with it. *)

\* only the first character of s is looked at
check_roman_first_char(s) == IF Len(s) = 0 THEN TRUE ELSE s[1] \in Digits

\* check_roman(s) returns (TRUE) or raises ValueError (FALSE)
check_roman(s) == \A p \in 1..Len(s) : s[p] \in Digits

RECURSIVE replace_subtractive_from(_, _)
replace_subtractive_from(n, j) ==
    IF j > Len(ADDITIVE_MAP) THEN n
    ELSE LET sub == ADDITIVE_MAP[j][1]
             add_ == ADDITIVE_MAP[j][2]
             replaced == IF In(sub, n) THEN replace(n, sub, add_) ELSE n
         IN  CHOOSE r \in {replace_subtractive_from(m, j + 1) : m \in {replaced}} :
                 TRUE

replace_subtractive(n) == replace_subtractive_from(n, 1)

RECURSIVE replace_additive_from(_, _)
replace_additive_from(n, j) ==
    IF j > Len(ADDITIVE_MAP) THEN n
    ELSE LET key == ADDITIVE_MAP[j][1]
             value == ADDITIVE_MAP[j][2]
             replaced == IF In(value, n) THEN replace(n, value, key) ELSE n
         IN  CHOOSE r \in {replace_additive_from(m, j + 1) : m \in {replaced}} :
                 TRUE

replace_additive(n) == replace_additive_from(n, 1)

\* one pass of fold_digits' for loop over REDUCTION_MAP.items()
RECURSIVE fold_pass_from(_, _)
fold_pass_from(n, j) ==
    IF j > Len(REDUCTION_MAP) THEN n
    ELSE LET digits == REDUCTION_MAP[j][1]
             reduction == REDUCTION_MAP[j][2]
             replaced == IF In(digits, n) THEN replace(n, digits, reduction)
                         ELSE n
         IN  CHOOSE r \in {fold_pass_from(m, j + 1) : m \in {replaced}} : TRUE

RECURSIVE fold_digits(_)
fold_digits(n) ==
    LET folded == fold_pass_from(n, 1)
    IN  IF folded = n THEN n ELSE fold_digits(folded)

\* only the first token is expanded
additive_form_first_only(ns) ==
    IF ns = <<>> THEN <<>> ELSE <<replace_subtractive(Head(ns))>> \o Tail(ns)

\* the additive forms of the tokens, each expanded on its own
RECURSIVE additive_form(_)
additive_form(ns) ==
    IF ns = <<>> THEN <<>>
    ELSE <<replace_subtractive(Head(ns))>> \o additive_form(Tail(ns))

\* add applied to the tuple ns, for tokens that pass check_roman
add(ns) ==
    replace_additive(fold_digits(sorted_sum_of(join(additive_form(ns)))))

----------------------------------------------------------------------------
(* Inputs *)

\* the strings of exactly n characters over S
StringsOfLen(S, n) == [1..n -> S]

Strings(S, n) == UNION {StringsOfLen(S, m) : m \in 0..n}

\* the ways to cut s into exactly t tokens (empty tokens included)
RECURSIVE Cuts(_, _)
Cuts(s, t) ==
    IF t = 1 THEN {<<s>>}
    ELSE UNION {{<<SubSeq(s, 1, p)>> \o rest :
                    rest \in Cuts(SubSeq(s, p + 1, Len(s)), t - 1)} :
                p \in 0..Len(s)}

\* ns is an argument tuple of 1..MaxTokens tokens over S holding at most
\* MaxSymbols characters
Arguments(ns, S) ==
    \E s \in Strings(S, MaxSymbols), t \in 1..MaxTokens : ns \in Cuts(s, t)

\* ns is a triple of tokens over the roman digits holding at most MaxSymbols
\* characters
Triples(ns) ==
    \E s \in Strings(Digits, MaxSymbols) : ns \in Cuts(s, 3)

----------------------------------------------------------------------------
----------------------------------------------------------------------------
(* Roman numbers as the module docstring describes them *)

\* I (1), V (5), X (10), L (50), C (100), D (500), M (1000)
Weight(x) ==
    CASE x = "I" -> 1
      [] x = "V" -> 5
      [] x = "X" -> 10
      [] x = "L" -> 50
      [] x = "C" -> 100
      [] x = "D" -> 500
      [] x = "M" -> 1000

\* the tidy forms: adjacent values add up, and four repeated characters are
\* always written in subtractive notation
TidyParts ==
    << <<1000, <<"M">> >>, <<900, <<"C","M">> >>, <<500, <<"D">> >>,
       <<400, <<"C","D">> >>, <<100, <<"C">> >>, <<90, <<"X","C">> >>,
       <<50, <<"L">> >>, <<40, <<"X","L">> >>, <<10, <<"X">> >>,
       <<9, <<"I","X">> >>, <<5, <<"V">> >>, <<4, <<"I","V">> >>,
       <<1, <<"I">> >> >>

RECURSIVE TidyFrom(_, _)
TidyFrom(v, j) ==
    IF v = 0 THEN <<>>
    ELSE IF v >= TidyParts[j][1]
         THEN TidyParts[j][2] \o TidyFrom(v - TidyParts[j][1], j)
         ELSE TidyFrom(v, j + 1)

\* the tidy roman number of the value v >= 1
Tidy(v) == TidyFrom(v, 1)

\* the value a roman number is read as: a digit before a larger one is
\* subtracted, every other digit is added
RECURSIVE Val(_)
Val(s) ==
    IF s = <<>> THEN 0
    ELSE IF Len(s) > 1 /\ Weight(s[1]) < Weight(s[2])
         THEN Val(Tail(s)) - Weight(s[1])
         ELSE Val(Tail(s)) + Weight(s[1])

\* s is the tidy roman number of a value in 1..MaxValue
IsTidy(s) ==
    LET v == Val(s) IN v \in 1..MaxValue /\ Tidy(v) = s

\* the digits of s are in non-increasing weight order
NonIncreasing(s) ==
    \A p \in 1..(Len(s) - 1) : Weight(s[p]) >= Weight(s[p + 1])

\* s is a "relaxed" token: repeated symbols written out, none subtracted
IsRelaxed(s) == s # <<>> /\ NonIncreasing(s)

\* the two input shapes the docstring allows
Supported(s) == IsTidy(s) \/ IsRelaxed(s)

\* the value of all the tokens of ns together
RECURSIVE Total(_)
Total(ns) == IF ns = <<>> THEN 0 ELSE Val(Head(ns)) + Total(Tail(ns))

\* pat occurs in s as a run of adjacent characters
Occurs(pat, s) ==
    \E p \in 1..(Len(s) - Len(pat) + 1) :
        \A q \in 1..Len(pat) : s[p + q - 1] = pat[q]

SubtractivePairs ==
    { <<"C","M">>, <<"C","D">>, <<"X","C">>, <<"X","L">>, <<"I","X">>,
      <<"I","V">> }

AdditiveRuns ==
    { <<"D","C","C","C","C">>, <<"C","C","C","C">>, <<"L","X","X","X","X">>,
      <<"X","X","X","X">>, <<"V","I","I","I","I">>, <<"I","I","I","I">> }

ReductionPatterns ==
    { <<"I","I","I","I","I">>, <<"V","I","V">>, <<"V","V">>,
      <<"X","X","X","X","X">>, <<"L","X","L">>, <<"L","L">>,
      <<"C","C","C","C","C">>, <<"D","C","D">>, <<"D","D">> }

NoSubtractivePair(s) == \A pat \in SubtractivePairs : ~Occurs(pat, s)

\* every character of s is one of the seven numerals
AllRoman(s) ==
    \A p \in 1..Len(s) : s[p] \in {"I", "V", "X", "L", "C", "D", "M"}

----------------------------------------------------------------------------
(* Inputs in the supported shapes *)

\* the ways to cut s into exactly t tokens, none of them empty
RECURSIVE NonEmptyCuts(_, _)
NonEmptyCuts(s, t) ==
    IF t = 1 THEN (IF s = <<>> THEN {} ELSE {<<s>>})
    ELSE UNION {{<<SubSeq(s, 1, p)>> \o rest :
                    rest \in NonEmptyCuts(SubSeq(s, p + 1, Len(s)), t - 1)} :
                p \in 1..(Len(s) - 1)}

\* ns is a tuple of 1..MaxTokens tokens, each in a supported shape, holding
\* at most MaxSupportedSymbols characters
SupportedArguments(ns) ==
    \E s \in Strings(Digits, MaxSupportedSymbols), t \in 1..MaxTokens :
        /\ ns \in NonEmptyCuts(s, t)
        /\ \A p \in 1..t : Supported(ns[p])

\* the calls the docstring and the design give the results of
KnownCalls ==
    { << <<"I","V">>, <<"V">> >>,
      << <<"X","V","I","I">>, <<"X">>, <<"X","I","I","I">> >>,
      << <<"I","I","I">>, <<"I","I","I">> >>,
      << <<"M","C","M","X","C">>, <<"X">> >>,
      << <<"I","I","I","I">>, <<"I">> >>,
      << <<"X","X","X","X","X","X">> >> }

\* ns is a tidy numeral on its own
TidyCalls(ns) == \E v \in 1..MaxValue : ns = <<Tidy(v)>>

----------------------------------------------------------------------------
(* The call add(numbers), step by step *)

Idle ==
    /\ i = 1
    /\ number = <<>>
    /\ number_before_fold = <<>>
    /\ k = 0
    /\ fired = {}
    /\ passes = 0
    /\ result = <<>>
    /\ sums = <<>>

Init ==
    /\ call = "add"
    /\ Arguments(numbers, Chars)
    /\ pc = "check"
    /\ Idle

\* for n in numbers: check_roman(n), the token passes
CheckPass ==
    /\ pc = "check"
    /\ i <= Len(numbers)
    /\ check_roman(numbers[i])
    /\ i' = i + 1
    /\ UNCHANGED <<call, numbers, pc, number, number_before_fold, k, fired,
                   passes, result, sums>>

\* for n in numbers: check_roman(n), the token raises ValueError
CheckRaise ==
    /\ pc = "check"
    /\ i <= Len(numbers)
    /\ ~check_roman(numbers[i])
    /\ pc' = "raised"
    /\ UNCHANGED <<call, numbers, i, number, number_before_fold, k, fired,
                   passes, result, sums>>

\* additive_sum = ''.join(replace_subtractive(n) for n in numbers)
Expand ==
    /\ pc = "check"
    /\ i > Len(numbers)
    /\ number' = join(additive_form(numbers))
    /\ pc' = "sort"
    /\ UNCHANGED <<call, numbers, i, number_before_fold, k, fired, passes,
                   result, sums>>

\* sorted_sum = ''.join(sorted(additive_sum, key=..., reverse=True));
\* ROMAN_DIGITS.index(x) raises ValueError for an x that is no roman digit
Sort ==
    /\ pc = "sort"
    /\ IF \A p \in 1..Len(number) : number[p] \in Digits
       THEN number' = sorted_sum_of(number) /\ pc' = "fold"
       ELSE number' = number /\ pc' = "raised"
    /\ UNCHANGED <<call, numbers, i, number_before_fold, k, fired, passes,
                   result, sums>>

Min(S) == CHOOSE x \in S : \A y \in S : x <= y

\* the positions of REDUCTION_MAP, from k on, whose digits are in number
Matching == {j \in k..Len(REDUCTION_MAP) : In(REDUCTION_MAP[j][1], number)}

\* number_before_fold assigned once, before the while loop
FoldPassBegin_assigned_once ==
    /\ pc = "fold"
    /\ number_before_fold' = IF passes = 0 THEN number ELSE number_before_fold
    /\ k' = 1
    /\ pc' = "scan"
    /\ UNCHANGED <<call, numbers, i, number, fired, passes, result, sums>>

\* while True: number_before_fold = number
FoldPassBegin ==
    /\ pc = "fold"
    /\ number_before_fold' = number
    /\ k' = 1
    /\ pc' = "scan"
    /\ UNCHANGED <<call, numbers, i, number, fired, passes, result, sums>>

\* the for loop runs on to the next entry whose digits are in number and
\* replaces them
FoldReplace ==
    /\ pc = "scan"
    /\ Matching # {}
    /\ LET j == Min(Matching)
       IN  /\ number' = replace(number, REDUCTION_MAP[j][1], REDUCTION_MAP[j][2])
           /\ k' = j + 1
           /\ fired' = fired \cup {j}
    /\ UNCHANGED <<call, numbers, pc, i, number_before_fold, passes, result,
                   sums>>

\* the for loop runs out with a changed number: the while loop goes round
FoldPassAgain ==
    /\ pc = "scan"
    /\ Matching = {}
    /\ number_before_fold # number
    /\ passes' = passes + 1
    /\ pc' = "fold"
    /\ UNCHANGED <<call, numbers, i, number, number_before_fold, k, fired,
                   result, sums>>

\* the for loop runs out with number unchanged: return number, to add or to
\* the caller of fold_digits
FoldReturn ==
    /\ pc = "scan"
    /\ Matching = {}
    /\ number_before_fold = number
    /\ passes' = passes + 1
    /\ IF call = "fold_digits"
       THEN pc' = "done" /\ result' = number
       ELSE pc' = "compress" /\ result' = result
    /\ UNCHANGED <<call, numbers, i, number, number_before_fold, k, fired,
                   sums>>

\* return reduced_sum, the call of replace_additive left out
Compress_left_out ==
    /\ pc = "compress"
    /\ result' = number
    /\ pc' = "done"
    /\ UNCHANGED <<call, numbers, i, number, number_before_fold, k, fired,
                   passes, sums>>

\* return replace_additive(reduced_sum)
Compress ==
    /\ pc = "compress"
    /\ result' = replace_additive(number)
    /\ pc' = "done"
    /\ UNCHANGED <<call, numbers, i, number, number_before_fold, k, fired,
                   passes, sums>>

Next ==
    \/ CheckPass
    \/ CheckRaise
    \/ Expand
    \/ Sort
    \/ FoldPassBegin
    \/ FoldReplace
    \/ FoldPassAgain
    \/ FoldReturn
    \/ Compress

\* add called with any tokens a caller can type; the interpreter runs the
\* call on without ever blocking
Spec == Init /\ [][Next]_vars /\ WF_vars(Next)

----------------------------------------------------------------------------
(* add called with tokens in the supported shapes only *)

InitSupported ==
    /\ call = "add"
    /\ \/ SupportedArguments(numbers)
       \/ numbers \in KnownCalls
       \/ TidyCalls(numbers)
    /\ pc = "check"
    /\ Idle

NextSupported ==
    \/ CheckPass
    \/ Expand
    \/ Sort
    \/ FoldPassBegin
    \/ FoldReplace
    \/ FoldPassAgain
    \/ FoldReturn
    \/ Compress

SpecSupported == InitSupported /\ [][NextSupported]_vars

----------------------------------------------------------------------------
(* fold_digits(number) called on its own, step by step *)

InitFold ==
    /\ call = "fold_digits"
    /\ \E s \in Strings(Digits, MaxFoldSymbols) : numbers = <<s>>
    /\ pc = "fold"
    /\ i = 1
    /\ number = numbers[1]
    /\ number_before_fold = <<>>
    /\ k = 0
    /\ fired = {}
    /\ passes = 0
    /\ result = <<>>
    /\ sums = <<>>

NextFold ==
    \/ FoldPassBegin
    \/ FoldReplace
    \/ FoldPassAgain
    \/ FoldReturn

\* the interpreter runs the loop on without ever blocking
SpecFold == InitFold /\ [][NextFold]_vars /\ WF_vars(NextFold)

----------------------------------------------------------------------------
(* replace_additive(replace_subtractive(number)), step by step *)

InitRoundTrip ==
    /\ call = "replace_subtractive"
    /\ \/ \E s \in Strings(Digits, MaxSymbols) : numbers = <<s>>
       \/ TidyCalls(numbers)
    /\ pc = "subtractive"
    /\ i = 1
    /\ number = numbers[1]
    /\ number_before_fold = <<>>
    /\ k = 1
    /\ fired = {}
    /\ passes = 0
    /\ result = <<>>
    /\ sums = <<>>

\* the for loop left after its first entry
MatchingKeys_first_entry ==
    {j \in k..1 : In(ADDITIVE_MAP[j][1], number)}

\* the positions of ADDITIVE_MAP, from k on, whose key is in number
MatchingKeys == {j \in k..Len(ADDITIVE_MAP) : In(ADDITIVE_MAP[j][1], number)}

\* the positions of ADDITIVE_MAP, from k on, whose value is in number
MatchingValues == {j \in k..Len(ADDITIVE_MAP) : In(ADDITIVE_MAP[j][2], number)}

\* replace_subtractive: the for loop runs on to the next key that is in
\* number and replaces it by its value
SubtractiveReplace ==
    /\ pc = "subtractive"
    /\ MatchingKeys # {}
    /\ LET j == Min(MatchingKeys)
       IN  /\ number' = replace(number, ADDITIVE_MAP[j][1], ADDITIVE_MAP[j][2])
           /\ k' = j + 1
    /\ UNCHANGED <<call, numbers, pc, i, number_before_fold, fired, passes,
                   result, sums>>

\* replace_subtractive returns; its result is handed to replace_additive
SubtractiveReturn ==
    /\ pc = "subtractive"
    /\ MatchingKeys = {}
    /\ sums' = <<number>>
    /\ k' = 1
    /\ pc' = "additive"
    /\ UNCHANGED <<call, numbers, i, number, number_before_fold, fired,
                   passes, result>>

\* replace_additive: the for loop runs on to the next value that is in
\* number and replaces it by its key
AdditiveReplace ==
    /\ pc = "additive"
    /\ MatchingValues # {}
    /\ LET j == Min(MatchingValues)
       IN  /\ number' = replace(number, ADDITIVE_MAP[j][2], ADDITIVE_MAP[j][1])
           /\ k' = j + 1
    /\ UNCHANGED <<call, numbers, pc, i, number_before_fold, fired, passes,
                   result, sums>>

\* replace_additive returns
AdditiveReturn ==
    /\ pc = "additive"
    /\ MatchingValues = {}
    /\ result' = number
    /\ pc' = "done"
    /\ UNCHANGED <<call, numbers, i, number, number_before_fold, k, fired,
                   passes, sums>>

NextRoundTrip ==
    \/ SubtractiveReplace
    \/ SubtractiveReturn
    \/ AdditiveReplace
    \/ AdditiveReturn

SpecRoundTrip == InitRoundTrip /\ [][NextRoundTrip]_vars

----------------------------------------------------------------------------
(* A caller that combines calls of add on three valid tokens a, b, c *)

InitCombine ==
    /\ call = "combine"
    /\ Triples(numbers)
    /\ pc = "inner"
    /\ Idle

\* add(a, b), add(b, a) and add(b, c)
AddInner ==
    /\ pc = "inner"
    /\ sums' = << add(<<numbers[1], numbers[2]>>),
                  add(<<numbers[2], numbers[1]>>),
                  add(<<numbers[2], numbers[3]>>) >>
    /\ pc' = "outer"
    /\ UNCHANGED <<call, numbers, i, number, number_before_fold, k, fired,
                   passes, result>>

\* add(add(a, b), c) and add(a, add(b, c))
AddOuter ==
    /\ pc = "outer"
    /\ sums' = sums \o << add(<<sums[1], numbers[3]>>),
                          add(<<numbers[1], sums[3]>>) >>
    /\ pc' = "done"
    /\ UNCHANGED <<call, numbers, i, number, number_before_fold, k, fired,
                   passes, result>>

NextCombine ==
    \/ AddInner
    \/ AddOuter

SpecCombine == InitCombine /\ [][NextCombine]_vars

----------------------------------------------------------------------------
(* The step-by-step runs return what the functions return *)

StepwiseAgrees ==
    /\ (call = "add" /\ pc = "done") => result = add(numbers)
    /\ (call = "fold_digits" /\ pc = "done") => result = fold_digits(numbers[1])
    /\ (call = "replace_subtractive" /\ pc = "additive" /\ k = 1)
           => number = replace_subtractive(numbers[1])
    /\ (call = "replace_subtractive" /\ pc = "done")
           => result = replace_additive(replace_subtractive(numbers[1]))

----------------------------------------------------------------------------
(* Properties *)

CountOf(x, s) == Len(SelectSeq(s, LAMBDA y : y = x))

\* C1: for tokens in the supported shapes (tidy numerals of 1..MaxValue and
\* relaxed tokens) whose values total at most MaxValue, add returns exactly
\* the tidy roman numeral of the total.
C1_AddReturnsTidySum ==
    (pc = "done" /\ Total(numbers) <= MaxValue)
        => result = Tidy(Total(numbers))

\* add('XVII', 'X', 'XIII') has returned 'XL'
C1_Witness ==
    /\ pc = "done"
    /\ numbers = << <<"X","V","I","I">>, <<"X">>, <<"X","I","I","I">> >>
    /\ result = <<"X","L">>

\* every token is checked before any is expanded; a call that raised had an
\* invalid token and has expanded and returned nothing; a call that got past
\* the checks had none
C2_Checked ==
    /\ pc = "raised" =>
          /\ \E p \in 1..Len(numbers) : ~AllRoman(numbers[p])
          /\ number = <<>>
          /\ result = <<>>
    /\ pc \notin {"check", "raised"} =>
          \A p \in 1..Len(numbers) : AllRoman(numbers[p])
    /\ pc = "check" => \A p \in 1..(i - 1) : AllRoman(numbers[p])
    /\ pc = "done" => \A p \in 1..Len(result) : result[p] \in Digits

\* a call ends, and ends in one of two ways: it raises, or it returns
C2_Ends == <>(pc \in {"done", "raised"})

\* C2: add raises if and only if some token holds a character that is no
\* roman digit, wherever that token stands; every token is checked before any
\* is expanded, nothing is returned on error, and with valid tokens only
\* (empty ones and sums above MaxValue included) the call runs on until it
\* returns a string.
C2_RaisesIffInvalidToken ==
    /\ []C2_Checked
    /\ C2_Ends

\* a call whose second token is the invalid one has raised
C2_Witness ==
    /\ pc = "raised"
    /\ Len(numbers) = 2
    /\ AllRoman(numbers[1])
    /\ ~AllRoman(numbers[2])
    /\ i = 2

\* C3: replace_additive(replace_subtractive(N)) = N for every tidy roman
\* numeral N of a value in 1..MaxValue.
C3_RoundTrip ==
    (pc = "done" /\ IsTidy(numbers[1])) => result = numbers[1]

\* MCMXCIV went through DCCCC, LXXXX and IIII and came back
C3_Witness ==
    /\ pc = "done"
    /\ numbers[1] = <<"M","C","M","X","C","I","V">>
    /\ sums[1] = <<"M","D","C","C","C","C","L","X","X","X","X","I","I","I","I">>
    /\ result = numbers[1]

\* C4: add(add(a, b), c) = add(a, add(b, c)) for all valid tokens a, b, c
\* (canonical or not); the result of add fed back to add as a token changes
\* nothing.
C4_Associative ==
    pc = "done" => sums[4] = sums[5]

\* add(add('IV','V'),'') was given add's own result 'IX' as a token, and
\* add('IV',add('V','')) the result 'V'; both returned 'IX'
C4_Witness ==
    /\ pc = "done"
    /\ numbers = << <<"I","V">>, <<"V">>, <<>> >>
    /\ sums[1] = <<"I","X">>
    /\ sums[3] = <<"V">>
    /\ sums[4] = <<"I","X">>
    /\ sums[5] = <<"I","X">>

\* C5: add(a, b) = add(b, a) for all valid tokens a and b, canonical or not,
\* the empty token included.
C5_Commutative ==
    pc \in {"outer", "done"} => sums[1] = sums[2]

\* add('I','V') and add('V','I'), whose joined sums differ, both gave 'VI'
C5_Witness ==
    /\ pc = "outer"
    /\ numbers[1] = <<"I">>
    /\ numbers[2] = <<"V">>
    /\ sums[1] = <<"V","I">>

\* C6: a non-empty result of add with at most three M is the tidy roman
\* numeral of a value in 1..MaxValue, whatever valid tokens went in; it holds
\* no five identical symbols in a row and none of the additive runs IIII,
\* VIIII, XXXX, LXXXX, CCCC, DCCCC.
C6_OutputTidy ==
    (pc = "done" /\ result # <<>> /\ CountOf("M", result) <= 3) =>
        /\ IsTidy(result)
        /\ \A x \in Digits : ~Occurs(<<x, x, x, x, x>>, result)
        /\ \A run \in AdditiveRuns : ~Occurs(run, result)

\* the non-canonical token 'VIV' went through 'VIIII' and came out as 'IX'
C6_Witness ==
    /\ pc = "done"
    /\ numbers = << <<"V","I","V">> >>
    /\ number = <<"V","I","I","I","I">>
    /\ result = <<"I","X">>

\* C7, as the source has it: for every token in a supported shape (a tidy
\* numeral of 1..MaxValue or a relaxed token) replace_subtractive walks the six
\* keys once each in the order CM, CD, XC, XL, IX, IV, no key it has passed
\* occurs in the string any more, and the string it returns holds none of the
\* six subtractive pairs.
C7_ExpandedSupportedHasNoPair ==
    (call = "replace_subtractive" /\ Supported(numbers[1])) =>
        /\ pc = "subtractive" =>
              /\ k \in 1..(Len(ADDITIVE_MAP) + 1)
              /\ \A j \in 1..(k - 1) : ~Occurs(ADDITIVE_MAP[j][1], number)
        /\ pc \in {"additive", "done"} => NoSubtractivePair(sums[1])

\* MCMXCIV was expanded to MDCCCCLXXXXIIII
C7_Witness ==
    /\ pc = "additive"
    /\ k = 1
    /\ numbers[1] = <<"M","C","M","X","C","I","V">>
    /\ number = <<"M","D","C","C","C","C","L","X","X","X","X","I","I","I","I">>

\* C7, as claimed: the string replace_subtractive returns holds none of the
\* six subtractive pairs, for any string over the seven roman digits.
C7_ExpandedHasNoPair ==
    (call = "replace_subtractive" /\ pc \in {"additive", "done"})
        => NoSubtractivePair(sums[1])

\* during a pass the string is the one the pass began with or a shorter one;
\* there are never more passes than the string had symbols, plus one; the
\* string returned holds none of the nine reduction patterns
C8_FoldInvariant ==
    /\ pc = "scan" =>
          \/ number = number_before_fold
          \/ Len(number) < Len(number_before_fold)
    /\ passes <= Len(numbers[1]) + 1
    /\ pc = "done" =>
          /\ number = number_before_fold
          /\ \A pat \in ReductionPatterns : ~Occurs(pat, result)

\* a pass ends with no pattern left to replace; the loop is left exactly
\* when the pass changed nothing, and goes round with a shorter string
\* otherwise
C8_PassEnd ==
    (pc = "scan" /\ pc' # "scan") =>
        /\ \A pat \in ReductionPatterns : ~Occurs(pat, number)
        /\ (pc' = "done") <=> (number = number_before_fold)
        /\ (pc' = "fold") <=> (Len(number) < Len(number_before_fold))

C9_IIVExpandsToFiveI ==
    numbers = << <<"I","I","V">> >> =>
        /\ pc # "raised"
        /\ pc = "sort" => number = <<"I","I","I","I","I">>
        /\ pc = "done" => result = <<"V">>

\* add('IIV') has returned 'V'
C9_Witness ==
    /\ numbers = << <<"I","I","V">> >>
    /\ pc = "done"
    /\ 1 \in fired
    /\ result = <<"V">>

\* C9, as claimed: replace_subtractive finds none of its six keys in 'IIV'
\* and returns the token unchanged; add('IIV') does not raise.
C9_IIVUnchanged ==
    numbers = << <<"I","I","V">> >> =>
        /\ pc # "raised"
        /\ pc = "sort" => number = <<"I","I","V">>

\* C10: inside add, the string fold_digits is given is in non-increasing
\* weight order and is so again after every replacement fold_digits makes;
\* the entries VIV, LXL and DCD never match, and what fold_digits returns
\* holds no subtractive pair.
C10_FoldKeepsOrder ==
    (call = "add" /\ pc \in {"fold", "scan", "compress"}) =>
        /\ NonIncreasing(number)
        /\ \A j \in fired : REDUCTION_MAP[j][1] \notin
               { <<"V","I","V">>, <<"L","X","L">>, <<"D","C","D">> }
        /\ pc = "compress" => NoSubtractivePair(number)

\* add('IV', 'I'): 'IIIII' has just been replaced by 'V'
C10_Witness ==
    /\ call = "add"
    /\ pc = "scan"
    /\ numbers = << <<"I","V">>, <<"I">> >>
    /\ number_before_fold = <<"I","I","I","I","I">>
    /\ number = <<"V">>
    /\ fired = {1}

=============================================================================
